---- MODULE Spec2Model ----
(***************************************************************************)
(* Voting dApp tutorial (alephium/voting-tutorial).                         *)
(*                                                                         *)
(* Two layers are modelled:                                                 *)
(*  - the button workflows of App.tsx (deployNewContract, allocateTokens,   *)
(*    vote, close) on top of Client.deployContract / Client.deployScript,   *)
(*    one remote call at a time, each await being a step;                   *)
(*  - the Voting contract generated by createContract (util/voting.tsx,     *)
(*    quoted in README.md), executed by the ledger on transferable assets.  *)
(* ALPH amounts are counted in units of 10^13 (utxoFee = 5 * 10^13).        *)
(***************************************************************************)
EXTENDS Integers, Sequences, FiniteSets, TLC

\* ------------------------------------------------------------------ bounds
MaxInv == 1
MaxVoters == 2
InitAlph == 15

\* -------------------------------------------------------- program constants
utxoFee == 5

Inv == 1..MaxInv
Addresses == {"a1", "a2", "a3"}
DeploymentIds == {"tx1", "notADeployment"}
Undefined == "undefined"

VARIABLES inv, voting, tokens, alph, lastCall, okCount, votedBy, render, poll

vars == <<inv, voting, tokens, alph, lastCall, okCount, votedBy, render, poll>>

\* the App component before it is mounted: no interval, no probe, networkType
\* as useState(undefined) leaves it
NoPoll ==
  [ mounted |-> FALSE, mounts |-> 0, now |-> 0, intervals |-> {},
    networkType |-> Undefined, probes |-> <<>> ]

\* the ledger: the contract, the balances and the record of its calls
ledger == <<voting, tokens, alph, lastCall, okCount, votedBy>>

\* ------------------------------------------------- util/voting.tsx (README)

RECURSIVE votersTransfersSkipLast(_, _)
\* mutant: the loop stops one voter short (i < nVoters - 1)
votersTransfersSkipLast(i, nVoters) ==
  IF i >= nVoters - 1 THEN <<>>
  ELSE << [op |-> "transferAlph", from |-> "admin", to |-> i, amount |-> utxoFee],
          [op |-> "transferTokenFromSelf", to |-> i, amount |-> 1] >>
       \o votersTransfersSkipLast(i + 1, nVoters)

RECURSIVE votersTransfersOneBased(_, _)
\* mutant: the generated statements index the voters from 1
votersTransfersOneBased(i, nVoters) ==
  IF i >= nVoters THEN <<>>
  ELSE << [op |-> "transferAlph", from |-> "admin", to |-> i + 1, amount |-> utxoFee],
          [op |-> "transferTokenFromSelf", to |-> i + 1, amount |-> 1] >>
       \o votersTransfersOneBased(i + 1, nVoters)

RECURSIVE votersTransfers(_, _)
\* the for loop of createContract: two statements pushed per voter index
votersTransfers(i, nVoters) ==
  IF i >= nVoters THEN <<>>
  ELSE << [op |-> "transferAlph", from |-> "admin", to |-> i, amount |-> utxoFee],
          [op |-> "transferTokenFromSelf", to |-> i, amount |-> 1] >>
       \o votersTransfers(i + 1, nVoters)

createContract(nVoters) ==
  [ name |-> "Voting",
    votersSize |-> nVoters,
    allocateTokens |-> votersTransfers(0, nVoters) ]

HexDigits == <<"0", "1", "2", "3", "4", "5", "6", "7", "8", "9", "a", "b", "c", "d", "e", "f">>

\* A string is the sequence of its UTF-16 code units, a Buffer the sequence
\* of its bytes.
IsHighSurrogate(u) == u >= 55296 /\ u <= 56319
IsLowSurrogate(u) == u >= 56320 /\ u <= 57343

\* the UTF-8 bytes of a code point
utf8Bytes(cp) ==
  IF cp < 128 THEN <<cp>>
  ELSE IF cp < 2048 THEN <<192 + (cp \div 64), 128 + (cp % 64)>>
  ELSE IF cp < 65536
       THEN <<224 + (cp \div 4096), 128 + ((cp \div 64) % 64), 128 + (cp % 64)>>
       ELSE <<240 + (cp \div 262144), 128 + ((cp \div 4096) % 64),
              128 + ((cp \div 64) % 64), 128 + (cp % 64)>>

RECURSIVE BufferFrom(_)
\* Buffer.from(str): the UTF-8 encoding of the string; a surrogate pair is one
\* code point, an unpaired surrogate is encoded as U+FFFD (ef bf bd)
BufferFrom(str) ==
  IF str = <<>> THEN <<>>
  ELSE IF IsHighSurrogate(str[1]) /\ Len(str) >= 2 /\ IsLowSurrogate(str[2])
       THEN utf8Bytes(65536 + (str[1] - 55296) * 1024 + (str[2] - 56320))
            \o BufferFrom(Tail(Tail(str)))
       ELSE IF IsHighSurrogate(str[1]) \/ IsLowSurrogate(str[1])
            THEN <<239, 191, 189>> \o BufferFrom(Tail(str))
            ELSE utf8Bytes(str[1]) \o BufferFrom(Tail(str))

RECURSIVE toStringHex(_)
\* buf.toString('hex'): two lowercase hex digits per byte
toStringHex(buf) ==
  IF buf = <<>> THEN <<>>
  ELSE <<HexDigits[(Head(buf) \div 16) + 1], HexDigits[(Head(buf) % 16) + 1]>>
       \o toStringHex(Tail(buf))

\* Buffer.from(str).toString('hex')
strToHexString(str) == toStringHex(BufferFrom(str))

\* the value of a hex digit
hexValue(d) == (CHOOSE k \in 1..16 : HexDigits[k] = d) - 1

RECURSIVE BufferFromHex(_)
\* Buffer.from(str, 'hex'): one byte per pair of hex digits
BufferFromHex(str) ==
  IF Len(str) < 2 THEN <<>>
  ELSE <<hexValue(str[1]) * 16 + hexValue(str[2])>> \o BufferFromHex(Tail(Tail(str)))

\* buf without its first k bytes
dropBytes(buf, k) == SubSeq(buf, k + 1, Len(buf))

RECURSIVE toStringUtf8(_)
\* buf.toString(): UTF-8 decoding; a code point above U+FFFF becomes a
\* surrogate pair, a byte that starts no sequence becomes U+FFFD
toStringUtf8(buf) ==
  IF buf = <<>> THEN <<>>
  ELSE LET b == buf[1]
       IN IF b < 128 THEN <<b>> \o toStringUtf8(dropBytes(buf, 1))
          ELSE IF b >= 192 /\ b <= 223 /\ Len(buf) >= 2
          THEN <<(b - 192) * 64 + (buf[2] - 128)>> \o toStringUtf8(dropBytes(buf, 2))
          ELSE IF b >= 224 /\ b <= 239 /\ Len(buf) >= 3
          THEN <<(b - 224) * 4096 + (buf[2] - 128) * 64 + (buf[3] - 128)>>
               \o toStringUtf8(dropBytes(buf, 3))
          ELSE IF b >= 240 /\ b <= 247 /\ Len(buf) >= 4
          THEN LET cp == (b - 240) * 262144 + (buf[2] - 128) * 4096
                         + (buf[3] - 128) * 64 + (buf[4] - 128)
               IN <<55296 + ((cp - 65536) \div 1024), 56320 + ((cp - 65536) % 1024)>>
                  \o toStringUtf8(dropBytes(buf, 4))
          ELSE <<65533>> \o toStringUtf8(dropBytes(buf, 1))

\* Buffer.from(str, 'hex').toString()
hexStringToStr(str) == toStringUtf8(BufferFromHex(str))

initialContractState(title, adminAddress, voters) ==
  [ title |-> strToHexString(title), yes |-> 0, no |-> 0, isClosed |-> FALSE,
    initialized |-> FALSE, admin |-> adminAddress, voters |-> voters ]

\* mutant: the allocation script approves one fee, whatever the voter count
allocateTokenScriptOneFee(contractRef, nVoters) ==
  [ script |-> "TokenAllocation",
    contractId |-> contractRef.tokenId,
    approveToken |-> 0,
    approveAlph |-> utxoFee,
    call |-> "allocateTokens",
    choice |-> FALSE,
    contract |-> createContract(nVoters) ]

allocateTokenScript(contractRef, nVoters) ==
  [ script |-> "TokenAllocation",
    contractId |-> contractRef.tokenId,
    approveToken |-> 0,
    approveAlph |-> utxoFee * nVoters,
    call |-> "allocateTokens",
    choice |-> FALSE,
    contract |-> createContract(nVoters) ]

\* mutant: voting.vote(true, caller), whatever the choice
createVotingScriptAlwaysYes(choice, contractRef, nVoters) ==
  [ script |-> "VotingScript",
    contractId |-> contractRef.tokenId,
    approveTokenId |-> contractRef.tokenId,
    approveToken |-> 1,
    approveAlph |-> utxoFee,
    call |-> "vote",
    choice |-> TRUE,
    contract |-> createContract(nVoters) ]

createVotingScript(choice, contractRef, nVoters) ==
  [ script |-> "VotingScript",
    contractId |-> contractRef.tokenId,
    approveTokenId |-> contractRef.tokenId,
    approveToken |-> 1,
    approveAlph |-> utxoFee,
    call |-> "vote",
    choice |-> choice,
    contract |-> createContract(nVoters) ]

closeVotingScript(contractRef, nVoters) ==
  [ script |-> "ClosingScript",
    contractId |-> contractRef.tokenId,
    approveToken |-> 0,
    approveAlph |-> 0,
    call |-> "close",
    choice |-> FALSE,
    contract |-> createContract(nVoters) ]

\* ------------------------------------------------------ workflow invocations

NoData == [none |-> TRUE]

\* settings of App.tsx
explorerURL == "https://testnet.alephium.org"
\* 'My first voting contract'
votingTitle == <<77, 121, 32, 102, 105, 114, 115, 116, 32, 118, 111, 116, 105, 110, 103,
                 32, 99, 111, 110, 116, 114, 97, 99, 116>>

RECURSIVE decimalString(_)
\* `${n}` of a non-negative number: its decimal digits
decimalString(n) ==
  IF n < 10 THEN <<HexDigits[n + 1]>>
  ELSE decimalString(n \div 10) \o <<HexDigits[(n % 10) + 1]>>
CONTRACTGAS == "CONTRACTGAS"

IdleInv ==
  [ kind |-> "none", choice |-> FALSE, deploymentId |-> Undefined,
    pc |-> "idle", log |-> <<>>, inflight |-> {},
    address |-> Undefined, contractRef |-> NoData, nVoters |-> 0,
    rendered |-> NoData, build |-> NoData,
    result |-> "none", error |-> NoData ]

Event(type, call, data) == [type |-> type, call |-> call, data |-> data]

\* a remote call leaves the client: it is logged with its arguments and is in
\* flight until its response arrives
Issue(r, call, args) ==
  [r EXCEPT !.pc = call,
            !.log = Append(@, Event("issue", call, args)),
            !.inflight = @ \cup {call}]

\* the response of a call in flight has arrived and resolved its promise
Resolved(r, call, value) ==
  [r EXCEPT !.inflight = @ \ {call},
            !.log = Append(@, Event("ok", call, value))]

\* the values a rejected promise can carry: e, e.error, e.error.detail defined
\* or not
ErrorValues ==
  { [defined |-> TRUE, error |-> TRUE, detail |-> "remote detail"],
    [defined |-> TRUE, error |-> TRUE, detail |-> Undefined],
    [defined |-> TRUE, error |-> FALSE, detail |-> Undefined],
    [defined |-> FALSE, error |-> FALSE, detail |-> Undefined] }

\* mutant: alert(e) in both branches, which shows a structured error as the
\* string of an object
catchAndAlertGeneric(r, e) ==
  IF e.defined /\ e.error /\ e.detail # Undefined
  THEN [r EXCEPT !.log = Append(@, Event("alert", "catchAndAlert", [shown |-> "[object Object]"]))]
  ELSE [r EXCEPT !.log = Append(@, Event("alert", "catchAndAlert", [shown |-> e]))]

\* catchAndAlert: alert(e.error.detail) for a structured error, else alert(e)
catchAndAlert(r, e) ==
  IF e.defined /\ e.error /\ e.detail # Undefined
  THEN [r EXCEPT !.log = Append(@, Event("alert", "catchAndAlert", [shown |-> e.detail]))]
  ELSE [r EXCEPT !.log = Append(@, Event("alert", "catchAndAlert", [shown |-> e]))]

\* mutant: the URL is logged in a finally block, also after a failure
RejectedThenLogs(r, call, e) ==
  catchAndAlert(
    [r EXCEPT !.inflight = @ \ {call},
              !.log = Append(Append(@, Event("fail", call, e)),
                             Event("logUrl", "console.log",
                                   [explorerUrl |-> explorerURL, txId |-> Undefined])),
              !.pc = "failed", !.result = "rejected", !.error = e], e)

\* mutant: a retry layer issues a failed call once more before giving up
RejectedRetriesOnce(r, call, e) ==
  LET failed == [r EXCEPT !.inflight = @ \ {call},
                          !.log = Append(@, Event("fail", call, e))]
      k == CHOOSE j \in 1..Len(r.log) : r.log[j].type = "issue" /\ r.log[j].call = call
  IN IF \A j \in 1..Len(r.log) : r.log[j].type # "fail"
     THEN Issue(failed, call, r.log[k].data)
     ELSE catchAndAlert([failed EXCEPT !.pc = "failed", !.result = "rejected", !.error = e], e)

\* a rejected await: the async function rejects with e, nothing after the
\* await runs, and the catch handler of catchAndAlert alerts
Rejected(r, call, e) ==
  catchAndAlert(
    [r EXCEPT !.inflight = @ \ {call},
              !.log = Append(@, Event("fail", call, e)),
              !.pc = "failed", !.result = "rejected", !.error = e], e)

logTransactionUrl(r, url, txId) ==
  [r EXCEPT !.log = Append(@, Event("logUrl", "console.log", [explorerUrl |-> url, txId |-> txId]))]

\* ---- Client.deployContract / Client.deployScript (README.md, client.tsx) ----

\* mutant: no token is issued with the contract
deployContractNoTokens(r, contract, gas, state, issueTokenAmount) ==
  Issue([r EXCEPT !.rendered = [source |-> contract, gas |-> gas, state |-> state,
                                issueTokenAmount |-> decimalString(0)]],
        "compile", [endpoint |-> "compile-contract", code |-> contract])

\* this.compileContract(contract): the first call of the promise chain; gas,
\* state and issueTokenAmount stay in the closure for buildContract
deployContract(r, contract, gas, state, issueTokenAmount) ==
  Issue([r EXCEPT !.rendered = [source |-> contract, gas |-> gas, state |-> state,
                                issueTokenAmount |-> issueTokenAmount]],
        "compile", [endpoint |-> "compile-contract", code |-> contract])

\* this.compileScript(script)
deployScript(r, script) ==
  Issue([r EXCEPT !.rendered = [source |-> script]],
        "compile", [endpoint |-> "compile-script", code |-> script])

\* .then((compileResult) => this.buildContract(compileResult, gas, state, issueTokenAmount))
\* .then(this.buildScript)
thenBuild(r, compileResult) ==
  IF r.kind = "deployNewContract"
  THEN Issue(r, "build", [endpoint |-> "build-contract", code |-> compileResult,
                          gas |-> r.rendered.gas, state |-> r.rendered.state,
                          issueTokenAmount |-> r.rendered.issueTokenAmount])
  ELSE Issue(r, "build", [endpoint |-> "build-script", code |-> compileResult])

\* mutant: the await before this.sign is missing, submit leaves with the
\* pending promise as signature
thenSignNoAwait(r, buildResult) ==
  Issue(Issue([r EXCEPT !.build = buildResult], "sign", [data |-> buildResult.hash]),
        "submit", [unsignedTx |-> buildResult.unsignedTx, signature |-> Undefined])

\* mutant: the sign step is left out, the unsigned transaction is submitted
thenSignSkipped(r, buildResult) ==
  Issue([r EXCEPT !.build = buildResult], "submit",
        [unsignedTx |-> buildResult.unsignedTx, signature |-> Undefined])

\* const signature = await this.sign(buildContract.hash)
thenSign(r, buildResult) ==
  Issue([r EXCEPT !.build = buildResult], "sign", [data |-> buildResult.hash])

\* return this.submit(buildContract.unsignedTx, signature)
thenSubmit(r, signature) ==
  Issue(r, "submit", [unsignedTx |-> r.build.unsignedTx, signature |-> signature])

\* ---- the async functions of App.tsx, cut at their awaits ----

\* the active address of wallet-1, which deploys the contract and becomes its
\* administrator; the voters are any addresses, the administrator's among them
wallet1 == "a1"

\* state.fields of getContractState for a contract in the given state: one
\* typed value per field, the voters array flattened into single variables
fieldsOf(state) ==
  << [type |-> "ByteVec", value |-> state.title],
     [type |-> "U256", value |-> state.yes],
     [type |-> "U256", value |-> state.no],
     [type |-> "Bool", value |-> state.isClosed],
     [type |-> "Bool", value |-> state.initialized],
     [type |-> "Address", value |-> state.admin] >>
  \o [k \in 1..Len(state.voters) |-> [type |-> "Address", value |-> state.voters[k]]]

\* mutant: the voters are sliced from index 5
showStateSliceFive(fields) ==
  [ title |-> hexStringToStr(fields[1].value),
    yes |-> fields[2].value,
    no |-> fields[3].value,
    isClosed |-> fields[4].value,
    initialized |-> fields[5].value,
    admin |-> fields[6].value,
    voters |-> [k \in 1..(Len(fields) - 5) |-> fields[5 + k].value] ]

\* what showState extracts from state.fields (indices are 0-based in the code)
showState(fields) ==
  [ title |-> hexStringToStr(fields[1].value),
    yes |-> fields[2].value,
    no |-> fields[3].value,
    isClosed |-> fields[4].value,
    initialized |-> fields[5].value,
    admin |-> fields[6].value,
    voters |-> [k \in 1..(Len(fields) - 6) |-> fields[6 + k].value] ]


\* mutant: allocateTokens as printed in the README, without walletUnlock
startWorkflowReadme(kind, choice, deploymentId) ==
  LET r == [IdleInv EXCEPT !.kind = kind, !.choice = choice,
                           !.deploymentId = deploymentId, !.result = "pending"]
  IN IF kind = "allocateTokens"
     THEN Issue(r, "getContractRef", [txId |-> deploymentId])
     ELSE IF kind = "showState"
          THEN Issue(r, "getContractState", [txId |-> deploymentId])
          ELSE Issue(r, "walletUnlock", NoData)

\* the first await of the workflow: client.getContractState in showState,
\* client.walletUnlock() in the other four
startWorkflow(kind, choice, deploymentId) ==
  LET r == [IdleInv EXCEPT !.kind = kind, !.choice = choice,
                           !.deploymentId = deploymentId, !.result = "pending"]
  IN IF kind = "showState"
     THEN Issue(r, "getContractState", [txId |-> deploymentId])
     ELSE Issue(r, "walletUnlock", NoData)

\* showState after getContractState: alert(stateString), console.log(stateString)
afterGetContractState(r, state) ==
  LET stateString == showState(state.fields)
  IN [r EXCEPT !.log = Append(Append(@, Event("alert", "showState", [shown |-> stateString])),
                              Event("log", "console.log", [shown |-> stateString])),
               !.pc = "done", !.result = "resolved"]

\* after walletUnlock: await client.getActiveAddress() in deployNewContract,
\* await client.getContractRef(contractDeploymentId) in the other three
afterWalletUnlock(r) ==
  IF r.kind = "deployNewContract"
  THEN Issue(r, "getActiveAddress", NoData)
  ELSE Issue(r, "getContractRef", [txId |-> r.deploymentId])

\* mutant: the administrator is a fixed address of the settings, not the
\* address the node returned
afterGetActiveAddressFixedAdmin(r, wallet1Address) ==
  LET votingSetup == [title |-> votingTitle, voters |-> <<wallet1Address>>,
                      administrator |-> "a1"]
      contractStringCode == createContract(Len(votingSetup.voters))
      state == initialContractState(votingSetup.title, votingSetup.administrator,
                                    votingSetup.voters)
      r1 == [r EXCEPT !.address = wallet1Address,
                      !.log = Append(@, Event("render", "createContract",
                                              [contract |-> contractStringCode, state |-> state]))]
  IN deployContract(r1, contractStringCode, CONTRACTGAS, state,
                    decimalString(Len(votingSetup.voters)))

\* deployNewContract after getActiveAddress: votingSetup, createContract,
\* initialContractState, client.deployContract
afterGetActiveAddress(r, wallet1Address) ==
  LET votingSetup == [title |-> votingTitle, voters |-> <<wallet1Address>>,
                      administrator |-> wallet1Address]
      contractStringCode == createContract(Len(votingSetup.voters))
      state == initialContractState(votingSetup.title, votingSetup.administrator,
                                    votingSetup.voters)
      r1 == [r EXCEPT !.address = wallet1Address,
                      !.log = Append(@, Event("render", "createContract",
                                              [contract |-> contractStringCode, state |-> state]))]
  IN deployContract(r1, contractStringCode, CONTRACTGAS, state,
                    decimalString(Len(votingSetup.voters)))

\* const nVoters = await client.getNVoters(contractDeploymentId)
afterGetContractRef(r, contractRef) ==
  Issue([r EXCEPT !.contractRef = contractRef], "getNVoters", [txId |-> r.deploymentId])

\* the script of the workflow: allocateTokenScript / createVotingScript /
\* closeVotingScript
txScriptOf(r, nVoters) ==
  CASE r.kind = "allocateTokens" -> allocateTokenScript(r.contractRef, nVoters)
    [] r.kind = "vote" -> createVotingScript(r.choice, r.contractRef, nVoters)
    [] OTHER -> closeVotingScript(r.contractRef, nVoters)

\* after getNVoters: render the script, client.deployScript(txScript)
afterGetNVoters(r, nVoters) ==
  LET txScript == txScriptOf(r, nVoters)
      r1 == [r EXCEPT !.nVoters = nVoters,
                      !.log = Append(@, Event("render", txScript.script, txScript))]
  IN deployScript(r1, txScript)

\* mutant: the URL is built from the hash that was signed, not from the txId
\* of the submit response
afterDeployLogsSignedHash(r, txResult) ==
  [logTransactionUrl(r, explorerURL, [idOf |-> [hashOf |-> txResult.txId.idOf.tx]])
     EXCEPT !.pc = "done", !.result = "resolved"]

\* logTransactionUrl(settings.explorerURL, txResult.txId); the promise resolves
afterDeploy(r, txResult) ==
  [logTransactionUrl(r, explorerURL, txResult.txId) EXCEPT !.pc = "done", !.result = "resolved"]

\* ---- the full node's answers (REST endpoints 1-6 of the README overview) ----

compileResultOf(args) == [bytecode |-> args.code]
buildResultOf(args) == [unsignedTx |-> [tx |-> args], hash |-> [hashOf |-> args]]
signatureOf(args) == [signed |-> args.data]
txResultOf(args) == [txId |-> [idOf |-> args.unsignedTx]]

\* the outputs of a transaction: a contract deployment has an output of type
\* contract, assigned to the contract address and holding the issued token,
\* besides the change of the sender; any other transaction has asset outputs
TxOutputs(txId) ==
  IF txId = "notADeployment"
  THEN << [type |-> "asset", address |-> <<"address", "a1">>, tokens |-> <<>>] >>
  ELSE << [type |-> "contract", address |-> <<"address", txId>>,
           tokens |-> <<[id |-> <<"token", txId>>]>>],
          [type |-> "asset", address |-> <<"address", "a1">>, tokens |-> <<>>] >>

\* a reference with nothing in it
emptyRef == [contractAddress |-> <<"address", Undefined>>, tokenId |-> <<"token", Undefined>>]

\* client.getContractRef(txId): the fields address and tokens[0].id of the
\* output of type contract
contractRefOf(txId) ==
  LET outs == TxOutputs(txId)
      ks == {k \in DOMAIN outs : outs[k].type = "contract"}
  IN IF ks = {} THEN emptyRef
     ELSE LET out == outs[CHOOSE k \in ks : TRUE]
          IN [contractAddress |-> out.address, tokenId |-> out.tokens[1].id]

\* mutant: getContractRef answers with a reference for any transaction
isContractDeploymentAlways(txId) == TRUE

\* the transaction has an output of type contract
isContractDeployment(txId) ==
  \E k \in DOMAIN TxOutputs(txId) : TxOutputs(txId)[k].type = "contract"

\* the arguments of the latest issue of `call` in the log of r
ArgsOf(r, call) ==
  LET idx == {k \in 1..Len(r.log) : r.log[k].type = "issue" /\ r.log[k].call = call}
  IN r.log[CHOOSE k \in idx : \A j \in idx : j <= k].data

\* mutant: a response is handled only once the poll has seen a reachable node
AwaitingReachableNode(i, call) ==
  /\ inv[i].result = "pending" /\ call \in inv[i].inflight
  /\ poll.networkType \notin {Undefined, "UNREACHABLE"}

Awaiting(i, call) == inv[i].result = "pending" /\ call \in inv[i].inflight

\* ---- workflow actions ----

\* a button of App.tsx is clicked: onClick={() => catchAndAlert(workflow(...))}
Click(i, kind, choice, deploymentId) ==
  /\ inv[i].pc = "idle"
  /\ \A j \in Inv : j < i => inv[j].pc # "idle"
  /\ kind = "deployNewContract" => deploymentId = Undefined /\ choice = FALSE
  /\ kind # "deployNewContract" => deploymentId \in DeploymentIds
  /\ kind # "vote" => choice = FALSE
  /\ inv' = [inv EXCEPT ![i] = startWorkflow(kind, choice, deploymentId)]
  /\ UNCHANGED <<ledger, render, poll>>

WalletUnlockReturns(i) ==
  /\ Awaiting(i, "walletUnlock")
  /\ inv' = [inv EXCEPT ![i] = afterWalletUnlock(Resolved(@, "walletUnlock", NoData))]
  /\ UNCHANGED <<ledger, render, poll>>

GetActiveAddressReturns(i, address) ==
  /\ Awaiting(i, "getActiveAddress")
  /\ inv' = [inv EXCEPT ![i] =
               afterGetActiveAddress(Resolved(@, "getActiveAddress", address), address)]
  /\ UNCHANGED <<ledger, render, poll>>

GetContractRefReturns(i) ==
  /\ Awaiting(i, "getContractRef")
  /\ isContractDeployment(ArgsOf(inv[i], "getContractRef").txId)
  /\ LET ref == contractRefOf(ArgsOf(inv[i], "getContractRef").txId)
     IN inv' = [inv EXCEPT ![i] = afterGetContractRef(Resolved(@, "getContractRef", ref), ref)]
  /\ UNCHANGED <<ledger, render, poll>>

\* the node answers with the state of the contract deployed by txId, here the
\* state deployNewContract gave it
GetContractStateReturns(i) ==
  /\ Awaiting(i, "getContractState")
  /\ isContractDeployment(ArgsOf(inv[i], "getContractState").txId)
  /\ LET state == [fields |-> fieldsOf(initialContractState(votingTitle, wallet1, <<wallet1>>))]
     IN inv' = [inv EXCEPT ![i] =
                  afterGetContractState(Resolved(@, "getContractState", state), state)]
  /\ UNCHANGED <<ledger, render, poll>>

GetNVotersReturns(i, nVoters) ==
  /\ Awaiting(i, "getNVoters")
  /\ inv' = [inv EXCEPT ![i] = afterGetNVoters(Resolved(@, "getNVoters", nVoters), nVoters)]
  /\ UNCHANGED <<ledger, render, poll>>

CompileReturns(i) ==
  /\ Awaiting(i, "compile")
  /\ LET compileResult == compileResultOf(ArgsOf(inv[i], "compile"))
     IN inv' = [inv EXCEPT ![i] = thenBuild(Resolved(@, "compile", compileResult), compileResult)]
  /\ UNCHANGED <<ledger, render, poll>>

BuildReturns(i) ==
  /\ Awaiting(i, "build")
  /\ LET buildResult == buildResultOf(ArgsOf(inv[i], "build"))
     IN inv' = [inv EXCEPT ![i] = thenSign(Resolved(@, "build", buildResult), buildResult)]
  /\ UNCHANGED <<ledger, render, poll>>

SignReturns(i) ==
  /\ Awaiting(i, "sign")
  /\ LET signature == signatureOf(ArgsOf(inv[i], "sign"))
     IN inv' = [inv EXCEPT ![i] = thenSubmit(Resolved(@, "sign", signature), signature)]
  /\ UNCHANGED <<ledger, render, poll>>

\* mutant: submissions are queued, a response waits for the submit of every
\* earlier invocation
SubmitReturnsQueued(i) ==
  /\ Awaiting(i, "submit")
  /\ \A j \in DOMAIN inv : j < i => "submit" \notin inv[j].inflight
  /\ LET txResult == txResultOf(ArgsOf(inv[i], "submit"))
     IN inv' = [inv EXCEPT ![i] = afterDeploy(Resolved(@, "submit", txResult), txResult)]
  /\ UNCHANGED <<ledger, render, poll>>

SubmitReturns(i) ==
  /\ Awaiting(i, "submit")
  /\ LET txResult == txResultOf(ArgsOf(inv[i], "submit"))
     IN inv' = [inv EXCEPT ![i] = afterDeploy(Resolved(@, "submit", txResult), txResult)]
  /\ UNCHANGED <<ledger, render, poll>>

\* any remote call in flight can fail (wallet, compilation, build, submission
\* or network error); its promise rejects with e
CallFails(i, e) ==
  /\ inv[i].result = "pending"
  /\ \E call \in inv[i].inflight : inv' = [inv EXCEPT ![i] = Rejected(@, call, e)]
  /\ UNCHANGED <<ledger, render, poll>>

WorkflowKinds == {"deployNewContract", "showState", "allocateTokens", "vote", "close"}

NextWorkflow ==
  \/ \E i \in Inv, kind \in WorkflowKinds, choice \in BOOLEAN,
        deploymentId \in DeploymentIds \cup {Undefined} :
       Click(i, kind, choice, deploymentId)
  \/ \E i \in Inv : WalletUnlockReturns(i)
  \/ \E i \in Inv, address \in Addresses : GetActiveAddressReturns(i, address)
  \/ \E i \in Inv : GetContractRefReturns(i)
  \/ \E i \in Inv : GetContractStateReturns(i)
  \/ \E i \in Inv, nVoters \in 1..MaxVoters : GetNVotersReturns(i, nVoters)
  \/ \E i \in Inv : CompileReturns(i)
  \/ \E i \in Inv : BuildReturns(i)
  \/ \E i \in Inv : SignReturns(i)
  \/ \E i \in Inv : SubmitReturns(i)
  \/ \E i \in Inv, e \in ErrorValues : CallFails(i, e)

\* ------------------------------- the Voting contract on the ledger (README)
\* A transaction has one caller, who approves assets for the payable method
\* the script calls; a failed assert! or transfer makes the whole transaction
\* fail and leaves the ledger as it was.

Contract == "contract"
Holders == Addresses \cup {Contract}

\* approveAlph!(caller, a) and approveToken!(caller, id, t) of the scripts
approve(caller, a, t) ==
  [ failed |-> alph[caller] < a \/ tokens[caller] < t,
    caller |-> caller, approvedAlph |-> a, approvedToken |-> t,
    approved |-> [alph |-> a, token |-> t],
    voting |-> voting, tokens |-> tokens, alph |-> alph ]

Fail(f) == [f EXCEPT !.failed = TRUE]

\* assert!(pred)
assert(f, pred) == IF pred THEN f ELSE Fail(f)

\* transferAlph!(from, to, amount): only approved ALPH of the caller moves
transferAlph(f, from, to, amount) ==
  IF f.failed \/ from # f.caller \/ f.approvedAlph < amount THEN Fail(f)
  ELSE [f EXCEPT !.approvedAlph = @ - amount,
                 !.alph = [@ EXCEPT ![from] = @ - amount, ![to] = @ + amount]]

\* transferTokenFromSelf!(to, selfTokenId!(), amount)
transferTokenFromSelf(f, to, amount) ==
  IF f.failed \/ f.tokens[Contract] < amount THEN Fail(f)
  ELSE [f EXCEPT !.tokens = [@ EXCEPT ![Contract] = @ - amount, ![to] = @ + amount]]

\* transferTokenToSelf!(from, selfTokenId!(), amount): only approved tokens move
transferTokenToSelf(f, from, amount) ==
  IF f.failed \/ from # f.caller \/ f.approvedToken < amount THEN Fail(f)
  ELSE [f EXCEPT !.approvedToken = @ - amount,
                 !.tokens = [@ EXCEPT ![from] = @ - amount, ![Contract] = @ + amount]]

RECURSIVE runTransfers(_, _)
\* the statements createContract generated into allocateTokens, in order
runTransfers(f, stmts) ==
  IF stmts = <<>> THEN f
  ELSE LET st == Head(stmts)
           to == f.voting.voters[st.to + 1]
           f1 == IF st.op = "transferAlph"
                 THEN transferAlph(f, f.voting.admin, to, st.amount)
                 ELSE transferTokenFromSelf(f, to, st.amount)
       IN runTransfers(f1, Tail(stmts))

\* mutant: allocateTokens without assert!(initialized == false)
allocateTokensFnNoInitCheck(f) ==
  LET f2 == assert(f, f.caller = f.voting.admin)
      f3 == runTransfers(f2, createContract(Len(f.voting.voters)).allocateTokens)
  IN [f3 EXCEPT !.voting.yes = 0, !.voting.no = 0, !.voting.initialized = TRUE]

\* pub payable fn allocateTokens() -> ()
allocateTokensFn(f) ==
  LET f1 == assert(f, f.voting.initialized = FALSE)
      f2 == assert(f1, f1.caller = f1.voting.admin)
      f3 == runTransfers(f2, createContract(Len(f.voting.voters)).allocateTokens)
  IN [f3 EXCEPT !.voting.yes = 0, !.voting.no = 0, !.voting.initialized = TRUE]

\* mutant: the branches of vote are swapped
voteFnSwapped(f, choice, voter) ==
  LET f1 == assert(f, f.voting.initialized = TRUE /\ f.voting.isClosed = FALSE)
      f2 == transferAlph(f1, voter, f1.voting.admin, utxoFee)
      f3 == transferTokenToSelf(f2, voter, 1)
  IN IF choice = TRUE
     THEN [f3 EXCEPT !.voting.no = @ + 1]
     ELSE [f3 EXCEPT !.voting.yes = @ + 1]

\* mutant: vote asserts only initialized == true
voteFnNoClosedCheck(f, choice, voter) ==
  LET f1 == assert(f, f.voting.initialized = TRUE)
      f2 == transferAlph(f1, voter, f1.voting.admin, utxoFee)
      f3 == transferTokenToSelf(f2, voter, 1)
  IN IF choice = TRUE
     THEN [f3 EXCEPT !.voting.yes = @ + 1]
     ELSE [f3 EXCEPT !.voting.no = @ + 1]

\* mutant: vote without transferTokenToSelf!, the voter keeps the token
voteFnKeepsToken(f, choice, voter) ==
  LET f1 == assert(f, f.voting.initialized = TRUE /\ f.voting.isClosed = FALSE)
      f2 == transferAlph(f1, voter, f1.voting.admin, utxoFee)
  IN IF choice = TRUE
     THEN [f2 EXCEPT !.voting.yes = @ + 1]
     ELSE [f2 EXCEPT !.voting.no = @ + 1]

\* pub payable fn vote(choice: Bool, voter: Address) -> ()
voteFn(f, choice, voter) ==
  LET f1 == assert(f, f.voting.initialized = TRUE /\ f.voting.isClosed = FALSE)
      f2 == transferAlph(f1, voter, f1.voting.admin, utxoFee)
      f3 == transferTokenToSelf(f2, voter, 1)
  IN IF choice = TRUE
     THEN [f3 EXCEPT !.voting.yes = @ + 1]
     ELSE [f3 EXCEPT !.voting.no = @ + 1]

\* mutant: close asserts only initialized == true
closeFnNoClosedCheck(f) ==
  LET f1 == assert(f, f.voting.initialized = TRUE)
      f2 == assert(f1, f1.caller = f1.voting.admin)
  IN [f2 EXCEPT !.voting.isClosed = TRUE]

\* mutant: close without assert!(txCaller!(txCallerSize!() - 1) == admin)
closeFnNoAdminCheck(f) ==
  LET f1 == assert(f, f.voting.initialized = TRUE /\ f.voting.isClosed = FALSE)
  IN [f1 EXCEPT !.voting.isClosed = TRUE]

\* mutant: close asserts only isClosed == false
closeFnNoInitCheck(f) ==
  LET f1 == assert(f, f.voting.isClosed = FALSE)
      f2 == assert(f1, f1.caller = f1.voting.admin)
  IN [f2 EXCEPT !.voting.isClosed = TRUE]

\* pub fn close() -> ()
closeFn(f) ==
  LET f1 == assert(f, f.voting.initialized = TRUE /\ f.voting.isClosed = FALSE)
      f2 == assert(f1, f1.caller = f1.voting.admin)
  IN [f2 EXCEPT !.voting.isClosed = TRUE]

\* main() of a TxScript rendered by allocateTokenScript / createVotingScript /
\* closeVotingScript, run for `caller`; `voter` is the address handed to vote
\* (the caller itself in createVotingScript)
runScript(script, caller, voter) ==
  LET f0 == approve(caller, script.approveAlph, script.approveToken)
      \* let voting = Voting(#tokenId): the contract must exist
      f == assert(f0, script.contractId = contractRefOf("tx1").tokenId)
  IN CASE script.call = "allocateTokens" -> allocateTokensFn(f)
       \* approveToken!(caller, #id, 1) approves the token vote takes back
       [] script.call = "vote" ->
            voteFn(assert(f, script.approveTokenId = script.contractId), script.choice, voter)
       [] OTHER -> closeFn(f)

\* the ledger applies the transaction of a script: all of it or nothing
Apply(script, f, voter) ==
  /\ lastCall' = [method |-> script.call, caller |-> f.caller, choice |-> script.choice,
                  voter |-> voter, accepted |-> ~f.failed,
                  contractId |-> script.contractId, approved |-> f.approved,
                  left |-> [alph |-> f.approvedAlph, token |-> f.approvedToken]]
  /\ IF f.failed
     THEN UNCHANGED <<voting, tokens, alph, okCount, votedBy>>
     ELSE /\ voting' = f.voting
          /\ tokens' = f.tokens
          /\ alph' = f.alph
          /\ okCount' = [okCount EXCEPT ![script.call] = @ + 1]
          /\ votedBy' = IF script.call = "vote"
                        THEN [votedBy EXCEPT ![voter] = @ + 1]
                        ELSE votedBy

TheRef == contractRefOf("tx1")

\* `caller` submits the token allocation script; nVoters is what getNVoters
\* answers for the deployment
AllocateTokensTx(caller) ==
  /\ voting # NoData
  /\ LET script == allocateTokenScript(TheRef, Len(voting.voters))
     IN Apply(script, runScript(script, caller, caller), caller)
  /\ UNCHANGED <<inv, render, poll>>

\* `caller` submits a voting script: the script votes as txCaller!(0)
VoteTx(caller, choice) ==
  /\ voting # NoData
  /\ LET script == createVotingScript(choice, TheRef, Len(voting.voters))
     IN Apply(script, runScript(script, caller, caller), caller)
  /\ UNCHANGED <<inv, render, poll>>

\* `caller` submits the closing script
CloseTx(caller) ==
  /\ voting # NoData
  /\ LET script == closeVotingScript(TheRef, Len(voting.voters))
     IN Apply(script, runScript(script, caller, caller), caller)
  /\ UNCHANGED <<inv, render, poll>>

\* an ordinary transaction of the ledger: `from` sends the UTXO of one of its
\* tokens to `to`; a UTXO with a token always holds a small amount of ALPH
TransferTokenTx(from, to) ==
  /\ voting # NoData
  /\ from # to
  /\ tokens[from] >= 1
  /\ alph[from] >= utxoFee
  /\ tokens' = [tokens EXCEPT ![from] = @ - 1, ![to] = @ + 1]
  /\ alph' = [alph EXCEPT ![from] = @ - utxoFee, ![to] = @ + utxoFee]
  /\ UNCHANGED <<inv, render, poll, voting, lastCall, okCount, votedBy>>

NextContract ==
  \/ \E caller \in Addresses : AllocateTokensTx(caller)
  \/ \E caller \in Addresses, choice \in BOOLEAN : VoteTx(caller, choice)
  \/ \E caller \in Addresses : CloseTx(caller)
  \/ \E from \in Addresses, to \in Addresses : TransferTokenTx(from, to)

VoterLists == UNION {[1..n -> Addresses] : n \in 1..MaxVoters}

NoCall == [method |-> "none", caller |-> Undefined, choice |-> FALSE,
           voter |-> Undefined, accepted |-> FALSE,
           contractId |-> emptyRef.tokenId,
           approved |-> [alph |-> 0, token |-> 0], left |-> [alph |-> 0, token |-> 0]]

InitWorkflow ==
  /\ inv = [i \in Inv |-> IdleInv]
  /\ voting = NoData
  /\ tokens = NoData
  /\ alph = NoData
  /\ lastCall = NoCall
  /\ okCount = NoData
  /\ votedBy = NoData
  /\ render = NoData
  /\ poll = NoPoll

SpecWorkflow == InitWorkflow /\ [][NextWorkflow]_vars

\* ---- two clicks before the first workflow has finished ----

\* the invocations of two clicks
Concurrent == {1, 2}

InitConcurrent ==
  /\ inv = [i \in Concurrent |-> IdleInv]
  /\ voting = NoData
  /\ tokens = NoData
  /\ alph = NoData
  /\ lastCall = NoCall
  /\ okCount = NoData
  /\ votedBy = NoData
  /\ render = NoData
  /\ poll = NoPoll

NextConcurrent ==
  \/ \E i \in Concurrent, kind \in WorkflowKinds, choice \in BOOLEAN,
        deploymentId \in DeploymentIds \cup {Undefined} :
       Click(i, kind, choice, deploymentId)
  \/ \E i \in Concurrent : WalletUnlockReturns(i)
  \/ \E i \in Concurrent, address \in Addresses : GetActiveAddressReturns(i, address)
  \/ \E i \in Concurrent : GetContractRefReturns(i)
  \/ \E i \in Concurrent : GetContractStateReturns(i)
  \/ \E i \in Concurrent, nVoters \in 1..MaxVoters : GetNVotersReturns(i, nVoters)
  \/ \E i \in Concurrent : CompileReturns(i)
  \/ \E i \in Concurrent : BuildReturns(i)
  \/ \E i \in Concurrent : SignReturns(i)
  \/ \E i \in Concurrent : SubmitReturns(i)
  \/ \E i \in Concurrent, e \in ErrorValues : CallFails(i, e)

SpecConcurrent == InitConcurrent /\ [][NextConcurrent]_vars

\* a contract deployed as deployNewContract deploys it: the state rendered by
\* initialContractState, one issued token per voter, held by the contract
InitContract ==
  /\ inv = [i \in Inv |-> IdleInv]
  /\ \E admin \in {wallet1}, voters \in VoterLists :
       /\ voting = initialContractState(votingTitle, admin, voters)
       /\ tokens = [h \in Holders |-> IF h = Contract THEN Len(voters) ELSE 0]
  /\ alph = [a \in Addresses |-> InitAlph]
  /\ lastCall = NoCall
  /\ okCount = [allocateTokens |-> 0, vote |-> 0, close |-> 0]
  /\ votedBy = [a \in Addresses |-> 0]
  /\ render = NoData
  /\ poll = NoPoll

SpecContract == InitContract /\ [][NextContract]_vars

\* ------------------------------------------- a vote from button to ledger
\* One user of the application clicks 'Vote yes' or 'Vote no' for the
\* deployed contract; the transaction the workflow submits is executed on the
\* ledger for the active address of that user's wallet.

\* the script inside the transaction handed to submit
submittedScript(r) == ArgsOf(r, "submit").unsignedTx.tx.code.bytecode

\* 'Vote yes' / 'Vote no': onClick={() => catchAndAlert(vote(contractDeploymentId, choice))}
ClickVote(choice) == Click(1, "vote", choice, "tx1")

\* the node accepts the submitted transaction and executes its script for
\* `caller`; a transaction whose script fails is not accepted (CallFails)
SubmitLands(caller) ==
  /\ Awaiting(1, "submit")
  /\ LET script == submittedScript(inv[1])
         f == runScript(script, caller, caller)
         txResult == txResultOf(ArgsOf(inv[1], "submit"))
     IN /\ ~f.failed
        /\ Apply(script, f, caller)
        /\ inv' = [inv EXCEPT ![1] = afterDeploy(Resolved(@, "submit", txResult), txResult)]
  /\ UNCHANGED <<render, poll>>

NextVote ==
  \/ AllocateTokensTx(voting.admin)
  \/ \E choice \in BOOLEAN : ClickVote(choice)
  \/ WalletUnlockReturns(1)
  \/ GetContractRefReturns(1)
  \/ GetNVotersReturns(1, Len(voting.voters))
  \/ CompileReturns(1)
  \/ BuildReturns(1)
  \/ SignReturns(1)
  \/ \E caller \in Addresses : SubmitLands(caller)
  \/ \E e \in ErrorValues : CallFails(1, e)

SpecVote == InitContract /\ [][NextVote]_vars

\* ------------------------------------- rendering and reading back a state
\* The text functions of util/voting.tsx applied to inputs of any shape, and
\* showState of App.tsx reading back the state of a freshly deployed contract.

MaxTitleLen == 2

\* code units of a title: 'M', U+00E9, U+20AC, and the two halves of the
\* surrogate pair of U+1F600
TitleUnits == {77, 233, 8364, 55357, 56832}
Titles == UNION {[1..n -> TitleUnits] : n \in 0..MaxTitleLen}

\* createContract(voterCount) is called, for any voter count
RenderContract ==
  /\ render = NoData
  /\ \E nVoters \in 1..MaxVoters :
       render' = [fn |-> "createContract", nVoters |-> nVoters,
                  out |-> createContract(nVoters)]
  /\ UNCHANGED <<inv, ledger, poll>>

\* initialContractState(title, adminAddress, voters) is called, for any title,
\* administrator and voters
RenderInitialState ==
  /\ render = NoData
  /\ \E title \in Titles, adminAddress \in Addresses, voters \in VoterLists :
       render' = [fn |-> "initialContractState", title |-> title,
                  admin |-> adminAddress, voters |-> voters,
                  out |-> initialContractState(title, adminAddress, voters)]
  /\ UNCHANGED <<inv, ledger, poll>>

\* a contract was deployed with the rendered state and showState reads it
ShowState ==
  /\ render # NoData
  /\ render.fn = "initialContractState"
  /\ render' = [render EXCEPT !.fn = "showState", !.out = showState(fieldsOf(render.out))]
  /\ UNCHANGED <<inv, ledger, poll>>

\* one call of a text function per behaviour, read back by showState
NextRender ==
  \/ RenderContract
  \/ RenderInitialState
  \/ ShowState

InitRender ==
  /\ inv = [i \in Inv |-> IdleInv]
  /\ voting = NoData
  /\ tokens = NoData
  /\ alph = NoData
  /\ lastCall = NoCall
  /\ okCount = NoData
  /\ votedBy = NoData
  /\ render = NoData
  /\ poll = NoPoll

SpecRender == InitRender /\ [][NextRender]_vars

\* ------------------------------------- the network status poll (App.tsx)

\* setInterval(..., 15000)
pollDelay == 15000

MaxMounts == 2
MaxProbes == 2

\* what the probed node says of its network
NodeIdentities == {"mainnet", "testnet", "other"}

NetworkType == {"MAINNET", "TESTNET", "UNKNOWN", "UNREACHABLE"}

\* Client.getNetworkType on a response: the classification of the node
getNetworkType(identity) ==
  CASE identity = "mainnet" -> "MAINNET"
    [] identity = "testnet" -> "TESTNET"
    [] OTHER -> "UNKNOWN"

\* NetworkBadge: the text of the badge
networkTypeToText(networkType) ==
  IF networkType = "MAINNET" THEN "Mainnet"
  ELSE IF networkType = "TESTNET" THEN "Testnet"
  ELSE IF networkType = "UNKNOWN" THEN "Unknown network"
  ELSE "Unreachable node"

\* {networkType !== undefined && <NetworkBadge networkType={networkType} />}
Badge(p) ==
  IF p.mounted /\ p.networkType # Undefined
  THEN networkTypeToText(p.networkType) ELSE "no badge"

\* setNetworkType called by the callback of probe k: the state of the mounted
\* component instance that started the probe is set; an instance that is
\* unmounted has no state left to update
setNetworkType(p, k, value) ==
  IF p.mounted /\ p.probes[k].mount = p.mounts
  THEN [p EXCEPT !.networkType = value]
  ELSE p

\* client.getNetworkType() leaves the client
pollNetworkType(p, mount) ==
  [p EXCEPT !.probes = Append(@, [mount |-> mount, startedAt |-> p.now,
                                  status |-> "inflight", outcome |-> Undefined,
                                  identity |-> Undefined])]

\* .then(setNetworkType)
thenSetNetworkType(p, k, identity) ==
  setNetworkType([p EXCEPT !.probes[k].status = "ok",
                           !.probes[k].identity = identity,
                           !.probes[k].outcome = getNetworkType(identity)],
                 k, getNetworkType(identity))

\* mutant: a failed probe is shown as an unknown network
catchSetUnknown(p, k) ==
  setNetworkType([p EXCEPT !.probes[k].status = "failed",
                           !.probes[k].outcome = "UNKNOWN"], k, "UNKNOWN")

\* .catch(() => setNetworkType(NetworkType.UNREACHABLE))
catchSetUnreachable(p, k) ==
  setNetworkType([p EXCEPT !.probes[k].status = "failed",
                           !.probes[k].outcome = "UNREACHABLE"], k, "UNREACHABLE")

\* mutant: the cleanup of the effect leaves the interval running
cleanupKeepsInterval(p) == p

\* return () => clearInterval(interval)
cleanup(p) == [p EXCEPT !.intervals = {iv \in @ : iv.mount # p.mounts}]

\* the effect runs: setInterval(..., 15000), then pollNetworkType(client);
\* the state of the new component instance is useState(undefined)
Mount ==
  /\ ~poll.mounted
  /\ poll.mounts < MaxMounts
  /\ Len(poll.probes) < MaxProbes
  /\ LET m == poll.mounts + 1
         p == [poll EXCEPT !.mounted = TRUE, !.mounts = m, !.networkType = Undefined,
                           !.intervals = @ \cup {[mount |-> m, nextFire |-> poll.now + pollDelay]}]
     IN poll' = pollNetworkType(p, m)
  /\ UNCHANGED <<inv, ledger, render>>

\* the component is unmounted: the cleanup of the effect runs
Unmount ==
  /\ poll.mounted
  /\ poll' = cleanup([poll EXCEPT !.mounted = FALSE])
  /\ UNCHANGED <<inv, ledger, render>>

\* an interval is due: its callback calls pollNetworkType(client)
IntervalFires ==
  /\ Len(poll.probes) < MaxProbes
  /\ \E iv \in poll.intervals :
       /\ poll.now = iv.nextFire
       /\ poll' = pollNetworkType(
                    [poll EXCEPT !.intervals = (@ \ {iv}) \cup
                                   {[iv EXCEPT !.nextFire = @ + pollDelay]}], iv.mount)
  /\ UNCHANGED <<inv, ledger, render>>

\* the time that passes between two events
Elapsed == {5000, 15000}

\* time passes, never past the instant an interval is due
TimePasses ==
  /\ poll.intervals # {}
  /\ \E d \in Elapsed :
       /\ \A iv \in poll.intervals : poll.now + d <= iv.nextFire
       /\ poll' = [poll EXCEPT !.now = @ + d]
  /\ UNCHANGED <<inv, ledger, render>>

\* the node answers probe k
ProbeResolves ==
  /\ \E k \in 1..Len(poll.probes), identity \in NodeIdentities :
       /\ poll.probes[k].status = "inflight"
       /\ poll' = thenSetNetworkType(poll, k, identity)
  /\ UNCHANGED <<inv, ledger, render>>

\* probe k fails: the node is down, or the request errors
ProbeRejects ==
  /\ \E k \in 1..Len(poll.probes) :
       /\ poll.probes[k].status = "inflight"
       /\ poll' = catchSetUnreachable(poll, k)
  /\ UNCHANGED <<inv, ledger, render>>

NextPoll ==
  \/ Mount
  \/ Unmount
  \/ IntervalFires
  \/ TimePasses
  \/ ProbeResolves
  \/ ProbeRejects

SpecPoll == InitWorkflow /\ [][NextPoll]_vars

\* ---- the poll and a workflow of the same page ----

\* the page is loaded: the App component is mounted, and stays mounted while
\* the workflow runs
MountApp == poll.mounts = 0 /\ Mount

\* a button of the mounted page is clicked: Create Contract, Allocate Tokens,
\* Vote no or Close voting, the last three on the deployment tx1
ClickButton(kind) ==
  /\ poll.mounted
  /\ Click(1, kind, FALSE, IF kind = "deployNewContract" THEN Undefined ELSE "tx1")

\* a call of the workflow fails with a structured error
CallFailsWithDetail == \E e \in ErrorValues : e.detail # Undefined /\ CallFails(1, e)

NextApp ==
  \/ MountApp
  \/ IntervalFires
  \/ TimePasses
  \/ ProbeResolves
  \/ ProbeRejects
  \/ \E kind \in WorkflowKinds \ {"showState"} : ClickButton(kind)
  \/ WalletUnlockReturns(1)
  \/ GetActiveAddressReturns(1, wallet1)
  \/ GetContractRefReturns(1)
  \/ GetNVotersReturns(1, Len(<<wallet1>>))
  \/ CompileReturns(1)
  \/ BuildReturns(1)
  \/ SignReturns(1)
  \/ SubmitReturns(1)
  \/ CallFailsWithDetail

SpecApp == InitWorkflow /\ [][NextApp]_vars

\* ------------------------------------------------------------- properties

\* positions of the events of one type and call in the log of r
Pos(r, type, call) ==
  {k \in 1..Len(r.log) : r.log[k].type = type /\ r.log[k].call = call}

PosOfType(r, type) == {k \in 1..Len(r.log) : r.log[k].type = type}

\* every event (t2, c2) of r comes after some event (t1, c1)
Precedes(r, t1, c1, t2, c2) ==
  \A p \in Pos(r, t2, c2) : \E q \in Pos(r, t1, c1) : q < p

ChainSteps == <<"compile", "build", "sign", "submit">>
ChainSet == {ChainSteps[k] : k \in 1..Len(ChainSteps)}
ScriptKinds == {"allocateTokens", "vote", "close"}

\* the node's reading of a decimal literal
RECURSIVE parseDecimal(_)
parseDecimal(str) ==
  IF str = <<>> THEN 0
  ELSE LET d == CHOOSE k \in 0..9 : HexDigits[k + 1] = str[Len(str)]
       IN 10 * parseDecimal(SubSeq(str, 1, Len(str) - 1)) + d

\* C1: in deployContract and deployScript the remote calls go compile, build,
\* sign, submit: each step is issued at most once, only after the step before
\* it has succeeded, and no two of them are in flight at the same time.
C1_ChainInStrictOrder ==
  \A i \in Inv :
    LET r == inv[i] IN
      /\ \A k \in 2..Len(ChainSteps) :
           Precedes(r, "ok", ChainSteps[k - 1], "issue", ChainSteps[k])
      /\ \A k \in 1..Len(ChainSteps) : Cardinality(Pos(r, "issue", ChainSteps[k])) <= 1
      /\ Cardinality(r.inflight \cap ChainSet) <= 1
      /\ \A p \in PosOfType(r, "issue") :
           r.log[p].call \in ChainSet /\ p < Len(r.log)
             => r.log[p + 1].call = r.log[p].call /\ r.log[p + 1].type \in {"ok", "fail"}

C1_Witness ==
  \E i \in Inv : inv[i].kind = "close" /\ inv[i].pc = "done"
                 /\ \A k \in 1..Len(ChainSteps) : Pos(inv[i], "ok", ChainSteps[k]) # {}

\* C2: when a step of a workflow fails, no later step of that invocation is
\* issued, the invocation ends rejected with that one error, and no
\* transaction URL is logged.
C2_FailureAborts ==
  \A i \in Inv :
    LET r == inv[i] IN
      \A p \in PosOfType(r, "fail") :
        /\ PosOfType(r, "fail") = {p}
        /\ \A q \in PosOfType(r, "issue") \cup PosOfType(r, "render") : q < p
        /\ PosOfType(r, "logUrl") = {}
        /\ r.result = "rejected" /\ r.pc = "failed"
        /\ r.error = r.log[p].data
        /\ Cardinality(PosOfType(r, "alert")) = 1
        /\ r.inflight = {}

C2_Witness ==
  \E i \in Inv : inv[i].kind = "vote" /\ inv[i].pc = "failed"
                 /\ Pos(inv[i], "fail", "build") # {}

StepsOf(r) ==
  LET idx == SelectSeq([k \in 1..Len(r.log) |-> k],
                       LAMBDA k : r.log[k].type \in {"issue", "render"})
  IN [k \in 1..Len(idx) |-> r.log[idx[k]].call]

\* C4: a deployNewContract that is done went through walletUnlock,
\* getActiveAddress, rendering, compile, build, sign, submit in this order,
\* each call having succeeded before the next step, and rendered the contract
\* with the fetched address as administrator and as the only voter.
C4_DeployNewContractOrder ==
  \A i \in Inv :
    LET r == inv[i] IN
      r.kind = "deployNewContract" /\ r.pc = "done" =>
        /\ StepsOf(r) = <<"walletUnlock", "getActiveAddress", "createContract",
                          "compile", "build", "sign", "submit">>
        /\ \A p \in PosOfType(r, "issue") :
             r.log[p + 1].type = "ok" /\ r.log[p + 1].call = r.log[p].call
        /\ \A p \in Pos(r, "render", "createContract") :
             LET fetched == r.log[CHOOSE q \in Pos(r, "ok", "getActiveAddress") : TRUE].data
             IN /\ r.log[p].data.state.admin = fetched
                /\ r.log[p].data.state.voters = <<fetched>>
                /\ ArgsOf(r, "build").state = r.log[p].data.state

C4_Witness ==
  \E i \in Inv : inv[i].kind = "deployNewContract" /\ inv[i].pc = "done"
                 /\ inv[i].address = "a2"

C6_IssuedTokensEqualVoters ==
  \A i \in Inv :
    LET r == inv[i] IN
      r.kind = "deployNewContract" /\ Pos(r, "issue", "build") # {} =>
        LET args == ArgsOf(r, "build") IN
          /\ parseDecimal(args.issueTokenAmount) = Len(args.state.voters)
          /\ args.code.bytecode.votersSize = Len(args.state.voters)
          /\ Len(args.code.bytecode.allocateTokens) = 2 * Len(args.state.voters)
          /\ Len(args.state.voters) >= 1

C6_Witness ==
  \E i \in Inv : inv[i].kind = "deployNewContract" /\ inv[i].pc = "build"

\* the contract and every balance are as before the step
LedgerUnchanged == UNCHANGED <<voting, tokens, alph>>

\* the step is a contract call of `method` (accepted or rejected)
IsCall(method) ==
  /\ lastCall'.method = method
  /\ lastCall' # lastCall \/ okCount' # okCount

\* C7: an accepted vote happens on an initialized, open contract and adds
\* exactly 1 to yes when choice is true and to no when choice is false; the
\* other counter and every other field of the contract stay as they were.
C7_VoteIncrementsOneCounter ==
  [][ okCount'.vote # okCount.vote =>
        /\ voting.initialized = TRUE /\ voting.isClosed = FALSE
        /\ lastCall'.method = "vote" /\ lastCall'.accepted
        /\ okCount'.vote = okCount.vote + 1
        /\ IF lastCall'.choice
           THEN voting' = [voting EXCEPT !.yes = @ + 1]
           ELSE voting' = [voting EXCEPT !.no = @ + 1] ]_vars

C7_Witness ==
  /\ lastCall.method = "vote" /\ lastCall.accepted /\ lastCall.choice = TRUE
  /\ okCount.vote = 1
  /\ voting.yes = 1 /\ voting.no = 0

\* C8: a close call on a closed contract is rejected and changes nothing, and
\* close succeeds at most once in the life of a contract.
C8_CloseOnlyOnce ==
  /\ [](okCount.close <= 1)
  /\ [][ voting.isClosed /\ IsCall("close") =>
           ~lastCall'.accepted /\ okCount' = okCount /\ LedgerUnchanged ]_vars

C8_Witness ==
  /\ voting.isClosed /\ okCount.close = 1
  /\ lastCall.method = "close" /\ lastCall.caller = voting.admin
  /\ ~lastCall.accepted

\* C9: once the voting is closed it stays closed, every vote call is rejected
\* and the yes and no counters never change again.
C9_NoVoteAfterClose ==
  [][ voting.isClosed =>
        /\ voting'.isClosed
        /\ voting'.yes = voting.yes /\ voting'.no = voting.no
        /\ okCount'.vote = okCount.vote
        /\ (IsCall("vote") => ~lastCall'.accepted /\ LedgerUnchanged) ]_vars

C9_Witness ==
  /\ voting.isClosed
  /\ lastCall.method = "vote" /\ ~lastCall.accepted
  /\ lastCall.caller = lastCall.voter
  /\ tokens[lastCall.caller] >= 1 /\ alph[lastCall.caller] >= utxoFee

\* C10: allocateTokens succeeds at most once: once initialized is true every
\* allocateTokens call is rejected and changes nothing, so the tokens are
\* distributed and the counters reset only once, never after a counted vote.
C10_AllocateOnlyOnce ==
  /\ [](okCount.allocateTokens <= 1)
  /\ [][ voting.initialized /\ IsCall("allocateTokens") =>
           ~lastCall'.accepted /\ okCount' = okCount /\ LedgerUnchanged ]_vars
  /\ [][ okCount.vote > 0 => okCount'.allocateTokens = okCount.allocateTokens ]_vars

C10_Witness ==
  /\ voting.initialized /\ okCount.allocateTokens = 1 /\ okCount.vote = Len(voting.voters)
  /\ lastCall.method = "allocateTokens" /\ lastCall.caller = voting.admin
  /\ ~lastCall.accepted
  /\ tokens[Contract] = Len(voting.voters) /\ alph[voting.admin] >= utxoFee * Len(voting.voters)

\* the step is a call of a contract method (accepted or rejected)
IsAnyCall == lastCall' # lastCall \/ okCount' # okCount

\* C11: allocateTokens and close are accepted only from the administrator: a
\* call of either by another address is rejected and leaves the contract
\* (initialized, isClosed, yes, no), every token and ALPH balance and the
\* count of accepted calls as they were.
C11_OnlyAdminAllocatesAndCloses ==
  /\ [][ (IsCall("allocateTokens") \/ IsCall("close")) /\ lastCall'.caller # voting.admin =>
           /\ ~lastCall'.accepted
           /\ okCount' = okCount /\ votedBy' = votedBy /\ LedgerUnchanged ]_vars
  /\ [][ okCount'.allocateTokens # okCount.allocateTokens \/ okCount'.close # okCount.close =>
           lastCall'.caller = voting.admin ]_vars

\* close by another address on a contract the administrator could close
C11_Witness ==
  /\ voting.initialized /\ ~voting.isClosed
  /\ lastCall.method = "close" /\ lastCall.caller # voting.admin
  /\ ~lastCall.accepted

\* C12: for every address, at most one vote call with that address as the
\* voter is accepted in the life of the contract.
C12_AtMostOneVotePerVoter ==
  \A a \in Addresses : votedBy[a] <= 1

\* the addresses of the voters list
Voters == {voting.voters[k] : k \in DOMAIN voting.voters}

\* C13: a vote call whose voter is not in the voters list of the contract is
\* rejected and changes neither yes nor no.
C13_OnlyListedVotersVote ==
  [][ IsCall("vote") /\ lastCall'.voter \notin Voters =>
        /\ ~lastCall'.accepted
        /\ voting'.yes = voting.yes /\ voting'.no = voting.no ]_vars

\* C14: once initialized is true the token balance of the contract never
\* decreases: no step moves a token out of the contract any more.
C14_ReturnedTokensStay ==
  [][ voting.initialized => tokens'[Contract] >= tokens[Contract] ]_vars

\* every vote token is back in the contract and the administrator tried to
\* allocate them again
C14_Witness ==
  /\ voting.initialized /\ tokens[Contract] >= 2
  /\ okCount.vote = tokens[Contract]
  /\ lastCall.method = "allocateTokens" /\ lastCall.caller = voting.admin
  /\ ~lastCall.accepted /\ lastCall.left.alph = lastCall.approved.alph

\* the number of entries of the voters list that are address a
entriesOf(a) == Cardinality({k \in DOMAIN voting.voters : voting.voters[k] = a})

\* C15: the step of an accepted allocateTokens on a contract deployed with n
\* voters sets initialized and leaves yes = 0, no = 0, isClosed = false; every
\* entry of the voters list receives one token and one utxoFee of ALPH paid by
\* the administrator, and none of the n issued tokens stays in the contract.
\* With voters = [A], the one issued token is held by A.
C15_AllocationDistributesTokens ==
  [][ okCount'.allocateTokens # okCount.allocateTokens =>
        LET n == Len(voting.voters)
        IN /\ voting'.initialized = TRUE /\ voting'.isClosed = FALSE
           /\ voting'.yes = 0 /\ voting'.no = 0
           /\ voting'.admin = voting.admin /\ voting'.voters = voting.voters
           /\ tokens[Contract] = n /\ tokens'[Contract] = 0
           /\ \A a \in Addresses :
                /\ tokens[a] = 0 /\ tokens'[a] = entriesOf(a)
                /\ alph'[a] = alph[a] + utxoFee * entriesOf(a)
                                - (IF a = voting.admin THEN utxoFee * n ELSE 0)
           /\ (n = 1 => tokens'[voting.voters[1]] = 1) ]_vars

\* two different voters were served: one token each, none left in the contract
C15_Witness ==
  /\ lastCall.method = "allocateTokens" /\ lastCall.accepted
  /\ Len(voting.voters) = 2 /\ voting.voters[1] # voting.voters[2]
  /\ tokens[voting.voters[1]] = 1 /\ tokens[voting.voters[2]] = 1
  /\ tokens[Contract] = 0
  /\ voting.initialized /\ voting.yes = 0 /\ voting.no = 0

RECURSIVE SumAlph(_)
\* the ALPH the transferAlph! statements of a method move
SumAlph(stmts) ==
  IF stmts = <<>> THEN 0
  ELSE (IF Head(stmts).op = "transferAlph" THEN Head(stmts).amount ELSE 0)
       + SumAlph(Tail(stmts))

\* C16: what a script approves is what the method it calls transfers from the
\* caller, with the one constant utxoFee: the allocation script approves
\* utxoFee * n, the sum of the n transfers of allocateTokens; the voting script
\* approves utxoFee and one token, which vote transfers; the closing script
\* approves nothing and close transfers nothing. So an accepted call leaves
\* nothing of the approved assets unspent, and a call that meets the asserts of
\* its method and whose caller owns the approved assets is accepted.
C16_ApprovalsMatchTransfers ==
  [][ IsAnyCall =>
        LET c == lastCall'
            n == Len(voting.voters)
        IN /\ c.method = "allocateTokens" =>
                /\ c.approved = [alph |-> utxoFee * n, token |-> 0]
                /\ c.approved.alph = SumAlph(createContract(n).allocateTokens)
                /\ ( ( /\ ~voting.initialized /\ c.caller = voting.admin
                       /\ alph[c.caller] >= utxoFee * n ) => c.accepted )
           /\ c.method = "vote" =>
                /\ c.approved = [alph |-> utxoFee, token |-> 1]
                /\ ( ( /\ voting.initialized /\ ~voting.isClosed
                       /\ alph[c.caller] >= utxoFee /\ tokens[c.caller] >= 1 ) => c.accepted )
                /\ c.accepted =>
                     /\ tokens'[c.caller] = tokens[c.caller] - 1
                     /\ tokens'[Contract] = tokens[Contract] + 1
                     /\ c.caller # voting.admin =>
                          /\ alph'[c.caller] = alph[c.caller] - utxoFee
                          /\ alph'[voting.admin] = alph[voting.admin] + utxoFee
           /\ c.method = "close" =>
                /\ c.approved = [alph |-> 0, token |-> 0]
                /\ tokens' = tokens /\ alph' = alph
           /\ c.accepted => c.left = [alph |-> 0, token |-> 0] ]_vars

\* an allocation for two voters was accepted: 2 * utxoFee approved, all spent
C16_Witness ==
  /\ lastCall.method = "allocateTokens" /\ lastCall.accepted
  /\ Len(voting.voters) = 2
  /\ lastCall.approved.alph = 2 * utxoFee /\ lastCall.left.alph = 0

Rendered(fn) == render # NoData /\ render.fn = fn

\* C17: for every voter count n >= 1, createContract(n) declares a voters
\* array of size n and emits n transfer pairs and nothing else: for each index
\* i from 0 to n - 1, in increasing order and once, the transfer of utxoFee
\* from the administrator to voters[i] followed by the transfer of one token
\* from the contract to voters[i].
C17_OnePairPerVoter ==
  Rendered("createContract") =>
    LET n == render.nVoters
        stmts == render.out.allocateTokens
    IN /\ render.out.votersSize = n
       /\ Len(stmts) = 2 * n
       /\ \A i \in 0..(n - 1) :
            /\ stmts[2 * i + 1] = [op |-> "transferAlph", from |-> "admin",
                                   to |-> i, amount |-> utxoFee]
            /\ stmts[2 * i + 2] = [op |-> "transferTokenFromSelf", to |-> i, amount |-> 1]

C17_Witness ==
  Rendered("createContract") /\ render.nVoters = MaxVoters

RECURSIVE WellFormed(_)
\* the string has no unpaired surrogate
WellFormed(str) ==
  IF str = <<>> THEN TRUE
  ELSE IF IsHighSurrogate(str[1])
       THEN Len(str) >= 2 /\ IsLowSurrogate(str[2]) /\ WellFormed(Tail(Tail(str)))
       ELSE ~IsLowSurrogate(str[1]) /\ WellFormed(Tail(str))

\* what showState shows of a fresh contract is what initialContractState was given
RoundTrips ==
  /\ render.out = [title |-> render.title, yes |-> 0, no |-> 0, isClosed |-> FALSE,
                   initialized |-> FALSE, admin |-> render.admin,
                   voters |-> render.voters]
  /\ hexStringToStr(strToHexString(render.title)) = render.title

\* C18 as stated: the round trip holds for every title, administrator and
\* voters list.
C18_RoundTripAnyTitle ==
  Rendered("showState") => RoundTrips

\* C18, amended: the round trip holds for every title that is a well-formed
\* string (no unpaired surrogate), every administrator and every voters list:
\* showState recovers the title, yes = 0, no = 0, isClosed = false,
\* initialized = false, the administrator and the voters in the same order
\* and number, and hexStringToStr(strToHexString(title)) = title.
C18_RoundTripWellFormedTitle ==
  Rendered("showState") /\ WellFormed(render.title) => RoundTrips

\* a title made of a surrogate pair (four UTF-8 bytes) and two different voters
C18_Witness ==
  /\ Rendered("showState")
  /\ render.title = <<55357, 56832>>
  /\ Len(render.voters) = 2 /\ render.voters[1] # render.voters[2]
  /\ render.admin # render.voters[1]
  /\ render.out.title = render.title /\ render.out.voters = render.voters

\* C19: in allocateTokens, vote and close, getContractRef is asked about
\* exactly the deployment id of the workflow and, when it answers, answers
\* with the contract address and token id of that transaction, which the
\* rendered script then uses. When the id is not a contract deployment it
\* answers with no reference at all: the call fails, the workflow rejects,
\* and neither getNVoters nor any script rendering or chain call happens.
C19_ContractRefOfDeploymentOnly ==
  \A i \in Inv :
    LET r == inv[i]
        outs == TxOutputs(r.deploymentId)
        contractOuts == {k \in DOMAIN outs : outs[k].type = "contract"}
    IN r.kind \in ScriptKinds =>
        /\ \A p \in Pos(r, "issue", "getContractRef") :
             r.log[p].data.txId = r.deploymentId
        /\ \A p \in Pos(r, "ok", "getContractRef") :
             /\ \E k \in contractOuts :
                  r.log[p].data = [contractAddress |-> outs[k].address,
                                   tokenId |-> outs[k].tokens[1].id]
             /\ r.contractRef = r.log[p].data
        /\ \A p \in PosOfType(r, "render") :
             \E k \in contractOuts : r.log[p].data.contractId = outs[k].tokens[1].id
        /\ contractOuts = {} =>
             /\ r.contractRef = NoData
             /\ PosOfType(r, "render") = {}
             /\ Pos(r, "issue", "getNVoters") = {}
             /\ \A c \in ChainSet : Pos(r, "issue", c) = {}
             /\ (Pos(r, "issue", "getContractRef") # {} /\ "getContractRef" \notin r.inflight)
                  => r.result = "rejected" /\ Pos(r, "fail", "getContractRef") # {}

\* a vote on a transaction that deployed no contract was rejected at
\* getContractRef
C19_Witness ==
  \E i \in Inv :
    /\ inv[i].kind = "vote" /\ inv[i].deploymentId = "notADeployment"
    /\ inv[i].result = "rejected"
    /\ Pos(inv[i], "fail", "getContractRef") # {}
    /\ PosOfType(inv[i], "render") = {}

\* C20: the script the vote workflow renders for choice and a reference with
\* token id T approves exactly one token of id T and exactly utxoFee, and calls
\* vote(choice, caller) on the contract of id T with the choice of the button;
\* so the vote that a 'Vote yes' workflow gets accepted adds 1 to yes and
\* leaves no, and the one of a 'Vote no' workflow adds 1 to no and leaves yes.
C20_VotingScriptCarriesChoice ==
  /\ [](\A p \in PosOfType(inv[1], "render") :
          LET script == inv[1].log[p].data
              T == contractRefOf(inv[1].deploymentId).tokenId
          IN /\ inv[1].kind = "vote"
             /\ script = createVotingScript(inv[1].choice, inv[1].contractRef,
                                            Len(voting.voters))
             /\ script.call = "vote" /\ script.choice = inv[1].choice
             /\ script.contractId = T
             /\ script.approveTokenId = T /\ script.approveToken = 1
             /\ script.approveAlph = utxoFee)
  /\ [][ okCount'.vote # okCount.vote =>
           /\ Awaiting(1, "submit") /\ inv'[1].result = "resolved"
           /\ lastCall'.method = "vote" /\ lastCall'.voter = lastCall'.caller
           /\ lastCall'.choice = inv[1].choice
           /\ lastCall'.approved = [alph |-> utxoFee, token |-> 1]
           /\ IF inv[1].choice
              THEN voting'.yes = voting.yes + 1 /\ voting'.no = voting.no
              ELSE voting'.no = voting.no + 1 /\ voting'.yes = voting.yes ]_vars

\* a 'Vote no' workflow resolved and its vote was counted
C20_Witness ==
  /\ inv[1].kind = "vote" /\ inv[1].choice = FALSE /\ inv[1].result = "resolved"
  /\ okCount.vote = 1 /\ voting.no = 1 /\ voting.yes = 0

\* C27: the flags of the contract only move forward, uninitialized, open,
\* closed: a closed contract is initialized, initialized and isClosed never
\* return to false, and no vote or close is accepted before an allocateTokens
\* was.
C27_LifecycleOnlyForward ==
  /\ [](voting.isClosed => voting.initialized)
  /\ [](okCount.vote > 0 \/ okCount.close > 0 => okCount.allocateTokens > 0)
  /\ [][ /\ voting.initialized => voting'.initialized
         /\ voting.isClosed => voting'.isClosed
         /\ (okCount'.vote # okCount.vote \/ okCount'.close # okCount.close)
              => voting.initialized /\ okCount.allocateTokens = 1 ]_vars

\* the administrator tried to close a contract that was not yet initialized
C27_Witness ==
  /\ ~voting.initialized /\ ~voting.isClosed /\ okCount.allocateTokens = 0
  /\ lastCall.method = "close" /\ lastCall.caller = voting.admin
  /\ ~lastCall.accepted

RECURSIVE SumTokens(_)
\* the tokens held by a set of holders
SumTokens(hs) ==
  IF hs = {} THEN 0
  ELSE LET h == CHOOSE x \in hs : TRUE IN tokens[h] + SumTokens(hs \ {h})

\* C28: for a contract deployed with n voters and n issued tokens, the tokens
\* are conserved (the balance of the contract plus the balances of all
\* addresses is n), yes + no is the number of accepted votes, which is the
\* number of tokens returned to the contract, yes + no never exceeds n, and
\* neither counter ever decreases.
C28_TokensConserved ==
  /\ [](SumTokens(Holders) = Len(voting.voters))
  /\ [](voting.yes + voting.no = okCount.vote)
  /\ [](voting.yes + voting.no =
          IF voting.initialized THEN tokens[Contract] ELSE 0)
  /\ [](voting.yes + voting.no <= Len(voting.voters))
  /\ [][voting'.yes >= voting.yes /\ voting'.no >= voting.no]_vars

\* every token was used to vote, by both choices, one of them after a transfer
C28_Witness ==
  /\ Len(voting.voters) = 2
  /\ voting.yes = 1 /\ voting.no = 1
  /\ tokens[Contract] = 2
  /\ \E a \in Addresses : a \notin Voters /\ votedBy[a] = 1

\* e, e.error and e.error.detail are all defined
Structured(e) == e.defined /\ e.error /\ e.detail # Undefined

\* C23: every workflow started from a button runs under catchAndAlert: an
\* invocation that failed has exactly one alert, raised after the failure and
\* last in its log, showing e.error.detail when the error is structured and
\* the error value itself otherwise; an invocation that is pending or
\* succeeded has no error alert.
C23_OneAlertPerFailure ==
  \A i \in Inv :
    LET r == inv[i]
        alerts == Pos(r, "alert", "catchAndAlert")
    IN /\ r.kind \in WorkflowKinds \cup {"none"}
       /\ r.result = "rejected" =>
            /\ Cardinality(alerts) = 1
            /\ alerts = {Len(r.log)}
            /\ r.log[Len(r.log) - 1].type = "fail"
            /\ r.log[Len(r.log) - 1].data = r.error
            /\ r.log[Len(r.log)].data.shown =
                 IF Structured(r.error) THEN r.error.detail ELSE r.error
       /\ r.result # "rejected" =>
            /\ alerts = {}
            /\ PosOfType(r, "fail") = {}

\* an error with e.error defined and no detail was alerted as it is
C23_Witness ==
  \E i \in Inv :
    /\ inv[i].kind = "showState" /\ inv[i].result = "rejected"
    /\ inv[i].error.error /\ inv[i].error.detail = Undefined
    /\ inv[i].log[Len(inv[i].log)] = Event("alert", "catchAndAlert", [shown |-> inv[i].error])

\* the remote operations of the client
RemoteCalls == {"walletUnlock", "getActiveAddress", "getContractRef", "getNVoters",
                "getContractState", "compile", "build", "sign", "submit"}

\* C24: nothing retries: an invocation issues each remote operation at most
\* once, and after a failed call, submit included, it issues nothing again.
C24_NoAutomaticRetry ==
  \A i \in Inv :
    LET r == inv[i] IN
      /\ \A p \in PosOfType(r, "issue") : r.log[p].call \in RemoteCalls
      /\ \A c \in RemoteCalls : Cardinality(Pos(r, "issue", c)) <= 1
      /\ \A p \in PosOfType(r, "fail") :
           /\ \A q \in PosOfType(r, "issue") : q < p
           /\ r.inflight = {}

\* a submit failed and the invocation ended there
C24_Witness ==
  \E i \in Inv :
    /\ inv[i].result = "rejected"
    /\ Pos(inv[i], "fail", "submit") # {}
    /\ Cardinality(Pos(inv[i], "issue", "submit")) = 1

\* C30: in deployNewContract, allocateTokens, vote and close, an invocation
\* logs the explorer URL exactly once when its submit succeeded, after the
\* response of that submit and with the txId of that response, and an
\* invocation that has not succeeded has logged no URL.
C30_UrlLoggedOncePerSuccess ==
  \A i \in Inv :
    LET r == inv[i]
        urls == PosOfType(r, "logUrl")
    IN /\ (r.result = "resolved" /\ r.kind # "showState") => Cardinality(urls) = 1
       /\ (r.result # "resolved" \/ r.kind = "showState") => urls = {}
       /\ \A p \in urls :
            /\ p = Len(r.log)
            /\ r.log[p - 1].type = "ok" /\ r.log[p - 1].call = "submit"
            /\ r.log[p].data = [explorerUrl |-> explorerURL, txId |-> r.log[p - 1].data.txId]
            /\ r.log[p - 1].data = txResultOf(ArgsOf(r, "submit"))

C30_Witness ==
  \E i \in Inv :
    /\ inv[i].kind = "allocateTokens" /\ inv[i].result = "resolved"
    /\ PosOfType(inv[i], "logUrl") = {Len(inv[i].log)}

\* the chain of r ran in order on r's own data
OwnChain(r) ==
  /\ \A k \in 2..Len(ChainSteps) :
       Precedes(r, "ok", ChainSteps[k - 1], "issue", ChainSteps[k])
  /\ \A p \in Pos(r, "issue", "compile") :
       r.log[p - 1].type = "render"
  /\ \A p \in Pos(r, "issue", "build") :
       r.log[p].data.code = compileResultOf(ArgsOf(r, "compile"))
  /\ \A p \in Pos(r, "issue", "sign") :
       r.log[p].data = [data |-> buildResultOf(ArgsOf(r, "build")).hash]
  /\ \A p \in Pos(r, "issue", "submit") :
       /\ r.log[p].data.unsignedTx = buildResultOf(ArgsOf(r, "build")).unsignedTx
       /\ r.log[p].data.signature = signatureOf(ArgsOf(r, "sign"))
       /\ r.log[p].data.signature.signed.hashOf = r.log[p].data.unsignedTx.tx

\* C25: two invocations in flight together are independent: each keeps the
\* compile, build, sign, submit order on its own data and submits the
\* signature of the transaction it built itself; whatever the other one is
\* doing, a submit in flight can return or fail at once (nothing queues the
\* submits); and a step of one invocation, a failure included, leaves the
\* record of the other as it was.
C25_ConcurrentInvocationsIndependent ==
  /\ [](\A i \in DOMAIN inv : OwnChain(inv[i]))
  /\ [](\A i \in DOMAIN inv :
          inv[i].result = "pending" /\ "submit" \in inv[i].inflight
            => /\ ENABLED SubmitReturns(i)
               /\ \A e \in ErrorValues : ENABLED CallFails(i, e))
  /\ [][\A i, j \in DOMAIN inv : i # j /\ inv'[i] # inv[i] => inv'[j] = inv[j]]_vars

\* the first workflow failed at its submit while the second, started before
\* that and of another kind, still has its own submit in flight
C25_Witness ==
  /\ DOMAIN inv = Concurrent
  /\ inv[1].kind = "vote" /\ inv[1].result = "rejected" /\ Pos(inv[1], "fail", "submit") # {}
  /\ inv[2].kind = "close" /\ inv[2].result = "pending" /\ inv[2].inflight = {"submit"}

\* the probes of the mounted component instance, by their index in poll.probes
OwnProbes == {k \in 1..Len(poll.probes) : poll.mounted /\ poll.probes[k].mount = poll.mounts}

\* C21: when a probe of the mounted component completes, networkType becomes
\* the type getNetworkType returned if the probe succeeded and UNREACHABLE if
\* it failed; networkType is UNKNOWN only after a node answered with an
\* identity that is neither mainnet nor testnet, never after a failed probe,
\* and the badge reads "Unreachable node" only for UNREACHABLE.
C21_PollOutcomeShown ==
  /\ [][\A k \in OwnProbes :
          poll.probes[k].status = "inflight" /\ poll'.probes[k].status # "inflight"
            => /\ poll'.mounted
               /\ poll'.probes[k].status = "ok"
                    => /\ poll'.probes[k].identity \in NodeIdentities
                       /\ poll'.networkType = getNetworkType(poll'.probes[k].identity)
               /\ poll'.probes[k].status = "failed" => poll'.networkType = "UNREACHABLE"
               /\ poll'.probes[k].status \in {"ok", "failed"}]_vars
  /\ [](poll.networkType = "UNKNOWN"
          => \E k \in 1..Len(poll.probes) :
               poll.probes[k].status = "ok" /\ poll.probes[k].identity = "other")
  /\ [](poll.networkType = "UNREACHABLE"
          => \E k \in 1..Len(poll.probes) : poll.probes[k].status = "failed")
  /\ [](poll.networkType \in NetworkType \cup {Undefined})
  /\ [](Badge(poll) = "Unreachable node" <=> poll.mounted /\ poll.networkType = "UNREACHABLE")
  /\ [](Badge(poll) = "Unknown network" <=> poll.mounted /\ poll.networkType = "UNKNOWN")

\* a probe answered by an unclassifiable node and a failed probe, each shown
\* as what it was: the failed one came last
C21_Witness ==
  /\ poll.mounted /\ Len(poll.probes) = 2
  /\ poll.probes[1].status = "ok" /\ poll.probes[1].identity = "other"
  /\ poll.probes[2].status = "failed" /\ poll.probes[2].mount = poll.mounts
  /\ poll.networkType = "UNREACHABLE"

\* C26: a mounted component has exactly one interval, set at mount; a probe is
\* started at mount and one each time the interval is due, 15000 ms after the
\* probe before it; once the cleanup has run its interval is gone and starts
\* no probe: every new probe belongs to the mounted instance.
C26_PollEveryInterval ==
  /\ [](poll.mounted => Cardinality(poll.intervals) = 1)
  /\ [](~poll.mounted => poll.intervals = {})
  /\ [](\A iv \in poll.intervals :
          /\ iv.mount = poll.mounts
          /\ poll.now <= iv.nextFire
          /\ \E k \in OwnProbes :
               /\ poll.probes[k].startedAt + pollDelay = iv.nextFire
               /\ \A j \in OwnProbes : j <= k)
  /\ [](\A k \in 2..Len(poll.probes) :
          poll.probes[k].mount = poll.probes[k - 1].mount
            => poll.probes[k].startedAt = poll.probes[k - 1].startedAt + pollDelay)
  /\ [][Len(poll'.probes) # Len(poll.probes)
          => /\ Len(poll'.probes) = Len(poll.probes) + 1
             /\ poll'.mounted
             /\ poll'.probes[Len(poll'.probes)].mount = poll'.mounts
             /\ poll'.probes[Len(poll'.probes)].startedAt = poll.now
             /\ poll.mounted \/ poll'.mounts = poll.mounts + 1]_vars
  /\ [][poll.mounted /\ ~poll'.mounted => poll'.intervals = {}]_vars

\* the component was unmounted after 15 s and mounted again: one interval,
\* and the probe of the second mount started at once
C26_Witness ==
  /\ poll.mounted /\ poll.mounts = 2 /\ Cardinality(poll.intervals) = 1
  /\ Len(poll.probes) = 2 /\ poll.probes[1].mount = 1 /\ poll.probes[2].mount = 2
  /\ poll.probes[2].startedAt >= pollDelay /\ poll.now = poll.probes[2].startedAt

\* C29: whenever no probe is in flight, networkType is the outcome of the
\* probe that was started last.
C29_LatestProbeWins ==
  (OwnProbes # {} /\ \A k \in 1..Len(poll.probes) : poll.probes[k].status # "inflight")
    => \E k \in OwnProbes :
         /\ \A j \in OwnProbes : j <= k
         /\ poll.networkType = poll.probes[k].outcome

\* r waits for the response of call
InFlight(r, call) == r.result = "pending" /\ call \in r.inflight

\* C22: the poll and the workflows do not block each other: whatever the poll
\* is doing (probe pending, failed, none yet) a workflow step whose call is in
\* flight can take its response or its failure, and a click on the mounted
\* page starts a workflow; whatever the workflow is doing an interval that is
\* due starts its probe and a probe in flight can complete; a step of the
\* poll changes neither the invocation nor the ledger, a step of a workflow
\* does not change the poll.
C22_PollAndWorkflowsIndependent ==
  /\ [](LET r == inv[1] IN
          /\ InFlight(r, "walletUnlock") => ENABLED WalletUnlockReturns(1)
          /\ InFlight(r, "getActiveAddress") => ENABLED GetActiveAddressReturns(1, wallet1)
          /\ InFlight(r, "getContractRef") => ENABLED GetContractRefReturns(1)
          /\ InFlight(r, "getNVoters") => ENABLED GetNVotersReturns(1, Len(<<wallet1>>))
          /\ InFlight(r, "compile") => ENABLED CompileReturns(1)
          /\ InFlight(r, "build") => ENABLED BuildReturns(1)
          /\ InFlight(r, "sign") => ENABLED SignReturns(1)
          /\ InFlight(r, "submit") => ENABLED SubmitReturns(1)
          /\ r.result = "pending" => ENABLED CallFailsWithDetail
          /\ (r.pc = "idle" /\ poll.mounted) => ENABLED ClickButton("vote"))
  /\ []((Len(poll.probes) < MaxProbes /\ \E iv \in poll.intervals : poll.now = iv.nextFire)
          => ENABLED IntervalFires)
  /\ []((\E k \in 1..Len(poll.probes) : poll.probes[k].status = "inflight")
          => ENABLED ProbeResolves /\ ENABLED ProbeRejects)
  /\ [][poll' # poll => inv' = inv /\ UNCHANGED ledger]_vars
  /\ [][inv' # inv => poll' = poll /\ UNCHANGED ledger]_vars

\* a vote went from click to the logged URL while the first probe had failed
\* and the second was still pending
C22_Witness ==
  /\ inv[1].kind = "vote" /\ inv[1].result = "resolved"
  /\ Len(poll.probes) = 2
  /\ poll.probes[1].status = "failed" /\ poll.probes[2].status = "inflight"
  /\ poll.networkType = "UNREACHABLE"

====
